---------------------------- MODULE Spec2Model ----------------------------
(***************************************************************************)
(* A model of the frugurt interpreter core:                                *)
(*   - lowering of a flat `expr op expr op ... expr` node into a binary    *)
(*     expression tree (tree_sitter_parser.rs, "binaries_expression");     *)
(*   - the type descriptor FruType (fru_type.rs): operator table,          *)
(*     instantiation, static member access.                                *)
(* Each component has its own specification over its own variables; the    *)
(* variables of the other components stay at their initial value.          *)
(***************************************************************************)
EXTENDS Integers, Sequences, FiniteSets, TLC

VARIABLES
    children,   \* the named children of the binaries_expression node
    list,       \* the LinkedList<Elem> after all precedence passes
    expr,       \* the FruExpression returned by the lowering
    parsed,     \* whether a binaries_expression has been lowered
    operators,  \* FruTypeInternal.operators: OperatorIdentifier -> AnyOperator
    regs,       \* number of set_operator calls made so far
    opCall,     \* the last call on the operator table and its arguments
    opResult,   \* what that call returned
    fields,     \* FruTypeInternal.fields of the type being instantiated
    declared,   \* whether that type has been constructed
    args,       \* the EvaluatedArgumentList handed to instantiate
    outcome,    \* what instantiate did: an object, an error, or a panic
    static_fields,      \* FruTypeInternal.static_fields: Identifier -> FruValue
    static_properties,  \* FruTypeInternal.static_properties: Identifier -> Property
    static_methods,     \* FruTypeInternal.static_methods: Identifier -> FruFunction
    constructed,        \* whether the type with these static members exists
    scopes,             \* number of scopes created by Scope::new_with_type
    staticCall,         \* the last get_prop / set_prop call and its arguments
    staticResult,       \* what that call returned
    backwards_map,      \* BACKWARDS_MAP: hash -> the text first interned with it
    interned,           \* the Identifier::new calls so far: text and handle
    displayed,          \* the last Display of a handle and what it gave
    wrapped,            \* whether a scope has been wrapped as a native value
    wrapped_scope,      \* the Scope the BuiltinScopeInstance holds
    scopeCall,          \* the last get_prop / set_prop on the instance
    scopeResult         \* what that call returned

varsLower == <<children, list, expr, parsed>>

varsOps == <<operators, regs, opCall, opResult>>

varsInst == <<fields, declared, args, outcome>>

varsStatic == <<static_fields, static_properties, static_methods, constructed,
                scopes, staticCall, staticResult>>

varsIntern == <<backwards_map, interned, displayed>>

varsScope == <<wrapped, wrapped_scope, scopeCall, scopeResult>>

vars == <<varsLower, varsOps, varsInst, varsStatic, varsIntern, varsScope>>

-----------------------------------------------------------------------------
(* Bounds *)

\* largest number of operators in one binaries_expression
MaxOps == 3

\* largest number of set_operator calls in one run
MaxRegs == 3

\* largest number of fields of a type
MaxFields == 2

\* largest number of arguments of an instantiation
MaxArgs == 3

\* argument values are 1..MaxValue
MaxValue == 2

\* largest number of type-bound scopes created in one run
MaxScopes == 3

\* largest number of Identifier::new calls in one run
MaxInterns == 3

-----------------------------------------------------------------------------
(* Binary-expression lowering: tree_sitter_parser.rs, "binaries_expression" *)

\* operator tokens that may appear between the operands
OpTokens == {"+", "-", "*", "/", "<"}

\* The static table from operator token to precedence band.  The table
\* lives in value/operator.rs; the bands are the ones the design names:
\* {*, /} binds tighter than {+, -}, which binds tighter than comparison.
\* A band that is reduced earlier binds tighter, and the passes run in
\* ascending order of this number.
calculate_precedence(op) ==
    IF op \in {"*", "/"} THEN 1
    ELSE IF op \in {"+", "-"} THEN 2
    ELSE 3

\* FruExpression: an operand (any already lowered sub-expression, kept by
\* its position among the operands) and FruExpression::Binary
Operand(i) == [kind |-> "Operand", pos |-> i]

Binary(op, l, r) == [kind |-> "Binary", operator |-> op, left |-> l, right |-> r]

\* enum Elem { Expr(FruExpression), BinOp { ident, precedence } }
ElemExpr(e) == [kind |-> "Expr", expr |-> e]

ElemBinOp(op, p) == [kind |-> "BinOp", ident |-> op, precedence |-> p]

\* the node's named children for a sequence of operator tokens:
\* operand, token, operand, ..., operand
ChildrenOf(ops) ==
    [i \in 1..(2 * Len(ops) + 1) |->
        IF i % 2 = 1 THEN [kind |-> "expr", pos |-> (i + 1) \div 2, text |-> ""]
        ELSE [kind |-> "op", pos |-> 0, text |-> ops[i \div 2]]]

OpSeqs == UNION {[1..n -> OpTokens] : n \in 0..MaxOps}

\* for i in 0..ast.named_child_count(): even children become Elem::Expr,
\* odd children Elem::BinOp with the token's precedence
BuildList(ch) ==
    [i \in 1..Len(ch) |->
        IF (i - 1) % 2 = 0 THEN ElemExpr(Operand(ch[i].pos))
        ELSE ElemBinOp(ch[i].text, calculate_precedence(ch[i].text))]

\* all_precedences: the BTreeSet of the precedences seen
AllPrecedences(l) ==
    {l[i].precedence : i \in {j \in 1..Len(l) : l[j].kind = "BinOp"}}

\* the pass with the cursor stepping on after a reduction, so that the
\* operator following the new node is not looked at in this pass
RECURSIVE ReduceBandFromSkip(_, _, _)
ReduceBandFromSkip(l, cur, target) ==
    IF cur > Len(l) THEN l
    ELSE IF l[cur].kind = "BinOp" /\ l[cur].precedence = target
    THEN LET node == Binary(l[cur].ident, l[cur - 1].expr, l[cur + 1].expr)
             l2 == SubSeq(l, 1, cur - 2) \o <<ElemExpr(node)>>
                   \o SubSeq(l, cur + 2, Len(l))
         IN  ReduceBandFromSkip(l2, cur + 1, target)
    ELSE ReduceBandFromSkip(l, cur + 1, target)

\* One pass of the cursor loop for target_precedence.  cur is the cursor's
\* position (Len(l) + 1 is the ghost element past the end).  On a BinOp of
\* the target band the cursor steps back, the three elements left, op,
\* right are removed and the Binary node is inserted before the cursor,
\* which then stands on the element that followed `right`.
RECURSIVE ReduceBandFrom(_, _, _)
ReduceBandFrom(l, cur, target) ==
    IF cur > Len(l) THEN l
    ELSE IF l[cur].kind = "BinOp" /\ l[cur].precedence = target
    THEN LET node == Binary(l[cur].ident, l[cur - 1].expr, l[cur + 1].expr)
             l2 == SubSeq(l, 1, cur - 2) \o <<ElemExpr(node)>>
                   \o SubSeq(l, cur + 2, Len(l))
         IN  ReduceBandFrom(l2, cur, target)
    ELSE ReduceBandFrom(l, cur + 1, target)

\* cursor_front_mut(); move_next(); loop { ... }
ReduceBand(l, target) == ReduceBandFrom(l, 2, target)

\* the bands visited in descending order
NextBandDescending(bands) == CHOOSE p \in bands : \A q \in bands : p >= q

\* the next band the for loop over the BTreeSet visits: the smallest
NextBand(bands) == CHOOSE p \in bands : \A q \in bands : p <= q

\* for target_precedence in all_precedences { ... }
RECURSIVE ReduceAll(_, _)
ReduceAll(l, bands) ==
    IF bands = {} THEN l
    ELSE LET p == NextBand(bands)
         IN  ReduceAll(ReduceBand(l, p), bands \ {p})

\* the list after every pass
LowerList(ch) ==
    LET l == BuildList(ch) IN ReduceAll(l, AllPrecedences(l))

\* list.pop_front().unwrap(), which must be an Elem::Expr
LowerExpr(ch) == LowerList(ch)[1].expr

NoExpr == [kind |-> "None"]

InitLower ==
    /\ children = <<>>
    /\ list = <<>>
    /\ expr = NoExpr
    /\ parsed = FALSE

\* parse_expression on a binaries_expression node
ParseBinaries ==
    \E ops \in OpSeqs :
        /\ children' = ChildrenOf(ops)
        /\ list' = LowerList(children')
        /\ expr' = LowerExpr(children')
        /\ parsed' = TRUE

-----------------------------------------------------------------------------
(* The operator table of a type: fru_type.rs, set_operator / get_operator *)

\* operator symbols and operand type names of the OperatorIdentifiers
OperatorSymbols == {"+", "*"}

TypeIdents == {"Number", "String"}

\* OperatorIdentifier { op, left, right }
OperatorIdentifier(op, left, right) == [op |-> op, left |-> left, right |-> right]

OperatorIdentifiers ==
    {OperatorIdentifier(op, l, r) : op \in OperatorSymbols, l \in TypeIdents, r \in TypeIdents}

\* AnyOperator: an implementation (named by the call that registered it)
\* and its commutative flag
AnyOperator(body, commutative) == [body |-> body, commutative |-> commutative]

NoOperator == [body |-> 0, commutative |-> FALSE]

\* Option<AnyOperator>
Some(v) == [some |-> TRUE, value |-> v]

None == [some |-> FALSE, value |-> NoOperator]

\* set_operator with Entry::Occupied overwritten instead of refused
set_operator_overwrite(table, ident, value) ==
    [result |-> "Ok",
     operators |-> [k \in DOMAIN table \cup {ident} |->
                        IF k = ident THEN value ELSE table[k]]]

\* FruType::set_operator: the error of Entry::Occupied, the insert of
\* Entry::Vacant; returns the result and the table afterwards
set_operator(table, ident, value) ==
    IF ident \in DOMAIN table
    THEN [result |-> "AlreadySet", operators |-> table]
    ELSE [result |-> "Ok",
          operators |-> [k \in DOMAIN table \cup {ident} |->
                            IF k = ident THEN value ELSE table[k]]]

\* get_operator matching the operator and the left operand only
get_operator_left_only(table, ident) ==
    IF \E k \in DOMAIN table : k.op = ident.op /\ k.left = ident.left
    THEN Some(table[CHOOSE k \in DOMAIN table : k.op = ident.op /\ k.left = ident.left])
    ELSE None

\* FruType::get_operator: operators.borrow().get(&ident).cloned()
get_operator(table, ident) ==
    IF ident \in DOMAIN table THEN Some(table[ident]) ELSE None

\* Operator resolution for evaluated operands of types left and right
\* (the caller of get_operator, in the evaluator): the exact entry, else
\* the commutative entry of the swapped pair with the operands swapped.
resolve_operator(table, op, left, right) ==
    LET exact == get_operator(table, OperatorIdentifier(op, left, right))
        mirror == get_operator(table, OperatorIdentifier(op, right, left))
    IN  IF exact.some
        THEN [result |-> "Found", entry |-> exact.value, swapped |-> FALSE]
        ELSE IF mirror.some /\ mirror.value.commutative
        THEN [result |-> "Found", entry |-> mirror.value, swapped |-> TRUE]
        ELSE [result |-> "NoOperator", entry |-> NoOperator, swapped |-> FALSE]

NoIdent == [op |-> "", left |-> "", right |-> ""]

InitOps ==
    /\ operators = <<>>
    /\ regs = 0
    /\ opCall = [fn |-> "none", ident |-> NoIdent, value |-> NoOperator]
    /\ opResult = [result |-> "none", entry |-> NoOperator, swapped |-> FALSE]

\* an operator declaration registers an implementation on the type
DeclareOperator ==
    /\ regs < MaxRegs
    /\ \E ident \in OperatorIdentifiers, commutative \in BOOLEAN :
        LET value == AnyOperator(regs + 1, commutative)
            r == set_operator(operators, ident, value)
        IN  /\ operators' = r.operators
            /\ regs' = regs + 1
            /\ opCall' = [fn |-> "set_operator", ident |-> ident, value |-> value]
            /\ opResult' = [result |-> r.result, entry |-> NoOperator, swapped |-> FALSE]
    /\ UNCHANGED <<varsLower, varsInst, varsStatic, varsIntern, varsScope>>

\* a binary expression resolves its operator for its operands' types
ResolveOperator ==
    /\ \E ident \in OperatorIdentifiers :
        /\ opCall' = [fn |-> "resolve_operator", ident |-> ident, value |-> NoOperator]
        /\ opResult' = resolve_operator(operators, ident.op, ident.left, ident.right)
    /\ UNCHANGED <<operators, regs>>
    /\ UNCHANGED <<varsLower, varsInst, varsStatic, varsIntern, varsScope>>

-----------------------------------------------------------------------------
(* Instantiation: fru_type.rs, FruType::instantiate *)

\* names of fields and of named arguments
FieldIdents == {"a", "b", "c"}

\* the ident of a positional argument: Option::None
NoIdentifier == "-"

Values == 1..MaxValue

\* field lists with pairwise distinct names
FieldLists ==
    {f \in UNION {[1..n -> FieldIdents] : n \in 0..MaxFields} :
        \A i, j \in 1..Len(f) : f[i] = f[j] => i = j}

\* EvaluatedArgumentList.args: Vec<(Option<Identifier>, FruValue)>
ArgumentLists ==
    UNION {[1..n -> [ident : FieldIdents \cup {NoIdentifier}, value : Values]] :
            n \in 0..MaxArgs}

Object(values) == [kind |-> "Object", error |-> "", ident |-> "", values |-> values]

Error(error, ident) == [kind |-> "Error", error |-> error, ident |-> ident, values |-> <<>>]

\* fields[n] with n out of bounds
Panic == [kind |-> "Panic", error |-> "", ident |-> "", values |-> <<>>]

NoOutcome == [kind |-> "none", error |-> "", ident |-> "", values |-> <<>>]

\* whether argument n makes `fields[n].ident` index past the field list
IndexOutOfBounds(fs, as, n) == as[n].ident = NoIdentifier /\ n > Len(fs)

\* a positional argument bound by its rank among the positional arguments
ArgIdentByRank(fs, as, n) ==
    IF as[n].ident # NoIdentifier THEN as[n].ident
    ELSE fs[Cardinality({k \in 1..n : as[k].ident = NoIdentifier})]

\* match ident { Some(ident) => ident, None => fields[n].ident }
\* (n counts every argument, named or not)
ArgIdent(fs, as, n) ==
    IF as[n].ident # NoIdentifier THEN as[n].ident ELSE fs[n]

\* The first loop, from argument n on: obj_fields is the HashMap built so
\* far.  Gives the finished map, or the early return.
RECURSIVE CollectArgs(_, _, _, _)
CollectArgs(fs, as, n, obj_fields) ==
    IF n > Len(as) THEN [early |-> FALSE, ret |-> NoOutcome, obj_fields |-> obj_fields]
    ELSE IF IndexOutOfBounds(fs, as, n)
    THEN [early |-> TRUE, ret |-> Panic, obj_fields |-> obj_fields]
    ELSE LET ident == ArgIdent(fs, as, n)
         IN  IF ident \in DOMAIN obj_fields
             THEN [early |-> TRUE, ret |-> Error("SetMoreThanOnce", ident),
                   obj_fields |-> obj_fields]
             ELSE CollectArgs(fs, as, n + 1,
                     [k \in DOMAIN obj_fields \cup {ident} |->
                        IF k = ident THEN as[n].value ELSE obj_fields[k]])

\* the field whose obj_fields.remove returns None first
FirstMissing(fs, obj_fields) ==
    fs[CHOOSE i \in 1..Len(fs) :
            /\ fs[i] \notin DOMAIN obj_fields
            /\ \A j \in 1..(i - 1) : fs[j] \in DOMAIN obj_fields]

\* the second loop when no field is missing: args.push(value) per field,
\* in declaration order
FieldValues(fs, obj_fields) == [i \in 1..Len(fs) |-> obj_fields[fs[i]]]

\* FruType::instantiate: every outcome the call can have.  The field
\* named by the does-not-exist error is obj_fields.keys().next(), any
\* key the HashMap still holds.
instantiate(fs, as) ==
    LET c == CollectArgs(fs, as, 1, <<>>)
        declaredIdents == {fs[i] : i \in 1..Len(fs)}
    IN  IF c.early THEN {c.ret}
        ELSE IF \E i \in 1..Len(fs) : fs[i] \notin DOMAIN c.obj_fields
        THEN {Error("Missing", FirstMissing(fs, c.obj_fields))}
        ELSE IF DOMAIN c.obj_fields \ declaredIdents # {}
        THEN {Error("DoesNotExist", ident) : ident \in DOMAIN c.obj_fields \ declaredIdents}
        ELSE {Object(FieldValues(fs, c.obj_fields))}

InitInst ==
    /\ fields = <<>>
    /\ declared = FALSE
    /\ args = <<>>
    /\ outcome = NoOutcome

\* FruType::new_value: the type is constructed with its field list
NewValue ==
    /\ ~declared
    /\ fields' \in FieldLists
    /\ declared' = TRUE
    /\ UNCHANGED <<args, outcome>>
    /\ UNCHANGED <<varsLower, varsOps, varsStatic, varsIntern, varsScope>>

\* an instantiation expression calls instantiate on the type; the call
\* leaves the type as it was, so one call per run shows all it can do
Instantiate ==
    /\ declared
    /\ outcome = NoOutcome
    /\ \E as \in ArgumentLists :
        /\ args' = as
        /\ outcome' \in instantiate(fields, as)
    /\ UNCHANGED <<fields, declared>>
    /\ UNCHANGED <<varsLower, varsOps, varsStatic, varsIntern, varsScope>>

-----------------------------------------------------------------------------
(* Static member access: fru_type.rs, FruType::get_prop / set_prop *)

\* names looked up on the type
StaticIdents == {"x", "y"}

\* FruValue::Number
Number(v) == [kind |-> "Number", num |-> v]

\* FruValue::Function(FruFunction { parameters, body, scope })
Function(parameters, body, scope) ==
    [kind |-> "Function", parameters |-> parameters, body |-> body, scope |-> scope]

Nah == [kind |-> "Nah"]

\* Result<_, FruError>
Ok(value) == [ok |-> TRUE, value |-> value, error |-> "", ident |-> "", message |-> <<>>]

\* FruTypeInternal.ident: the name of the type the members are looked up on
TypeIdent == "Point"

\* the text of the error, as the pieces the format string puts together:
\* "static prop `{}` not found", "static property `{}` has no getter",
\* "static property `{}` has no setter", each formatted with ident only
Message(error, ident) ==
    IF error = "NotFound" THEN <<"static prop ", ident, " not found">>
    ELSE IF error = "NoGetter" THEN <<"static property ", ident, " has no getter">>
    ELSE IF error = "NoSetter" THEN <<"static property ", ident, " has no setter">>
    ELSE <<>>

Err(error, ident) ==
    [ok |-> FALSE, value |-> Nah, error |-> error, ident |-> ident,
     message |-> Message(error, ident)]

\* Scope::new_with_type(self.clone()): the n-th scope created, bound to
\* the type
new_with_type(n) == [uid |-> n, bound_to |-> "type"]

\* getter expressions: literals.  The value 0 is no value a static field
\* can hold, so a getter's result is never taken for a field's value.
Literal(v) == [kind |-> "Literal", value |-> v]

GetterExpressions == {Literal(0)}

\* returned(getter.evaluate(new_scope)) for these expressions
evaluate(expression, scope) == Ok(Number(expression.value))

\* new_scope.let_variable(ident, value): the scope with the setter's
\* parameter bound to the assigned value
let_variable(scope, ident, value) ==
    [uid |-> scope.uid, bound_to |-> scope.bound_to, variable |-> ident, value |-> value]

\* setter statements: an empty block, and the store of the setter's
\* parameter into a static field of the type (`Type.target = value`)
SetterStatements ==
    {[kind |-> "Block", target |-> ""]}
        \cup {[kind |-> "SetStatic", target |-> t] : t \in StaticIdents}

\* returned_nothing(setter.execute(new_scope)) for these statements: the
\* result and the static fields afterwards.  The target of a SetStatic
\* is a static field of the type, which the nested set_prop writes.
execute(statement, scope) ==
    IF statement.kind = "SetStatic"
    THEN [ret |-> Ok(Nah),
          static_fields |-> [static_fields EXCEPT ![statement.target] = scope.value]]
    ELSE [ret |-> Ok(Nah), static_fields |-> static_fields]

\* Option<Rc<FruExpression>> and Option<(Identifier, Rc<FruStatement>)>
Absent == [some |-> FALSE]

Present(v) == [some |-> TRUE, value |-> v]

\* Property { ident, getter, setter }
Properties(ident) ==
    {[ident |-> ident, getter |-> g, setter |-> st] :
        g \in {Absent} \cup {Present(e) : e \in GetterExpressions},
        st \in {Absent} \cup {Present([ident |-> "value", body |-> b]) : b \in SetterStatements}}

\* the stored static method of a name
Method(ident) == [parameters |-> <<"p">>, body |-> ident]

\* get_prop looking at the static properties before the static fields
get_prop_property_first(ident) ==
    IF ident \in DOMAIN static_properties
    THEN LET new_scope == new_with_type(scopes + 1)
         IN  IF static_properties[ident].getter.some
             THEN [ret |-> evaluate(static_properties[ident].getter.value, new_scope),
                   scopes |-> scopes + 1]
             ELSE [ret |-> Err("NoGetter", ident), scopes |-> scopes + 1]
    ELSE IF ident \in DOMAIN static_fields
    THEN [ret |-> Ok(static_fields[ident]), scopes |-> scopes]
    ELSE IF ident \in DOMAIN static_methods
    THEN [ret |-> Ok(Function(static_methods[ident].parameters,
                              static_methods[ident].body,
                              new_with_type(scopes + 1))),
          scopes |-> scopes + 1]
    ELSE [ret |-> Err("NotFound", ident), scopes |-> scopes]

\* get_prop going on to the static methods when the property has no getter
get_prop_fall_through(ident) ==
    IF ident \in DOMAIN static_fields
    THEN [ret |-> Ok(static_fields[ident]), scopes |-> scopes]
    ELSE IF ident \in DOMAIN static_properties /\ static_properties[ident].getter.some
    THEN [ret |-> evaluate(static_properties[ident].getter.value,
                           new_with_type(scopes + 1)),
          scopes |-> scopes + 1]
    ELSE IF ident \in DOMAIN static_methods
    THEN [ret |-> Ok(Function(static_methods[ident].parameters,
                              static_methods[ident].body,
                              new_with_type(scopes + 1))),
          scopes |-> scopes + 1]
    ELSE [ret |-> Err("NotFound", ident), scopes |-> scopes]

\* FruType::get_prop: the result and the number of scopes afterwards
get_prop(ident) ==
    IF ident \in DOMAIN static_fields
    THEN [ret |-> Ok(static_fields[ident]), scopes |-> scopes]
    ELSE IF ident \in DOMAIN static_properties
    THEN LET new_scope == new_with_type(scopes + 1)
         IN  IF static_properties[ident].getter.some
             THEN [ret |-> evaluate(static_properties[ident].getter.value, new_scope),
                   scopes |-> scopes + 1]
             ELSE [ret |-> Err("NoGetter", ident), scopes |-> scopes + 1]
    ELSE IF ident \in DOMAIN static_methods
    THEN [ret |-> Ok(Function(static_methods[ident].parameters,
                              static_methods[ident].body,
                              new_with_type(scopes + 1))),
          scopes |-> scopes + 1]
    ELSE [ret |-> Err("NotFound", ident), scopes |-> scopes]

\* the static-field store with the value put under ident, as a HashMap
\* insert does
insert(store, ident, value) ==
    [k \in DOMAIN store \cup {ident} |-> IF k = ident THEN value ELSE store[k]]

\* set_prop that inserts the name into the static fields when it is
\* neither a static field nor a static property
set_prop_insert(ident, value) ==
    IF ident \in DOMAIN static_fields \/ ident \notin DOMAIN static_properties
    THEN [ret |-> Ok(Nah),
          static_fields |-> insert(static_fields, ident, value),
          scopes |-> scopes]
    ELSE IF static_properties[ident].setter.some
    THEN LET new_scope == let_variable(new_with_type(scopes + 1),
                                       static_properties[ident].setter.value.ident,
                                       value)
             e == execute(static_properties[ident].setter.value.body, new_scope)
         IN  [ret |-> e.ret, static_fields |-> e.static_fields, scopes |-> scopes + 1]
    ELSE [ret |-> Err("NoSetter", ident),
          static_fields |-> static_fields,
          scopes |-> scopes]

\* FruType::set_prop: the result, the static fields and the number of
\* scopes afterwards
set_prop(ident, value) ==
    IF ident \in DOMAIN static_fields
    THEN [ret |-> Ok(Nah),
          static_fields |-> [static_fields EXCEPT ![ident] = value],
          scopes |-> scopes]
    ELSE IF ident \in DOMAIN static_properties
    THEN IF static_properties[ident].setter.some
         THEN LET new_scope == let_variable(new_with_type(scopes + 1),
                                            static_properties[ident].setter.value.ident,
                                            value)
                  e == execute(static_properties[ident].setter.value.body, new_scope)
              IN  [ret |-> e.ret, static_fields |-> e.static_fields,
                   scopes |-> scopes + 1]
         ELSE [ret |-> Err("NoSetter", ident),
               static_fields |-> static_fields,
               scopes |-> scopes]
    ELSE [ret |-> Err("NotFound", ident),
          static_fields |-> static_fields,
          scopes |-> scopes]

NoStaticCall == [fn |-> "none", ident |-> "", value |-> Nah]

InitStatic ==
    /\ static_fields = <<>>
    /\ static_properties = <<>>
    /\ static_methods = <<>>
    /\ constructed = FALSE
    /\ scopes = 0
    /\ staticCall = NoStaticCall
    /\ staticResult = Err("none", "")

\* FruType::new_value: the type is constructed with its static fields
\* (initialised to 1), static properties and static methods; a setter
\* that stores into a static field names one the type has
NewValueStatic ==
    /\ ~constructed
    /\ \E F \in SUBSET StaticIdents, P \in SUBSET StaticIdents, M \in SUBSET StaticIdents :
        /\ static_fields' = [i \in F |-> Number(1)]
        /\ \E props \in [P -> UNION {Properties(i) : i \in StaticIdents}] :
            /\ \A i \in P : props[i].ident = i
            /\ \A i \in P :
                (props[i].setter.some /\ props[i].setter.value.body.kind = "SetStatic")
                    => props[i].setter.value.body.target \in F
            /\ static_properties' = props
        /\ static_methods' = [i \in M |-> Method(i)]
    /\ constructed' = TRUE
    /\ UNCHANGED <<scopes, staticCall, staticResult>>
    /\ UNCHANGED <<varsLower, varsOps, varsInst, varsIntern, varsScope>>

\* a static read `Type.ident`
GetProp ==
    /\ constructed
    /\ \E ident \in StaticIdents :
        LET r == get_prop(ident)
        IN  /\ r.scopes <= MaxScopes
            /\ staticCall' = [fn |-> "get_prop", ident |-> ident, value |-> Nah]
            /\ staticResult' = r.ret
            /\ scopes' = r.scopes
    /\ UNCHANGED <<static_fields, static_properties, static_methods, constructed>>
    /\ UNCHANGED <<varsLower, varsOps, varsInst, varsIntern, varsScope>>

\* a static write `Type.ident = value`
SetProp ==
    /\ constructed
    /\ \E ident \in StaticIdents, v \in Values :
        LET r == set_prop(ident, Number(v))
        IN  /\ r.scopes <= MaxScopes
            /\ staticCall' = [fn |-> "set_prop", ident |-> ident, value |-> Number(v)]
            /\ staticResult' = r.ret
            /\ static_fields' = r.static_fields
            /\ scopes' = r.scopes
    /\ UNCHANGED <<static_properties, static_methods, constructed>>
    /\ UNCHANGED <<varsLower, varsOps, varsInst, varsIntern, varsScope>>

-----------------------------------------------------------------------------
(* The symbol interner: identifier.rs, Identifier::new and Display *)

\* texts that are interned
Texts == {"a", "b", "c", "d"}

\* DefaultHasher over the text: a fixed function of the text, under which
\* two different texts can have one hash, as "a" and "c" have here
hash(text) ==
    IF text \in {"a", "c"} THEN 11
    ELSE IF text = "b" THEN 22
    ELSE 33

\* Identifier { hashed_ident }
Identifier(h) == [hashed_ident |-> h]

\* Identifier::new with the text of the entry replaced on every call
Identifier_new_replacing(map, text) ==
    [ident |-> Identifier(hash(text)),
     map |-> [h \in DOMAIN map \cup {hash(text)} |->
                IF h = hash(text) THEN text ELSE map[h]]]

\* Identifier::new that hands out the handle without recording the text
Identifier_new_unrecorded(map, text) ==
    [ident |-> Identifier(hash(text)), map |-> map]

\* Identifier::new: BACKWARDS_MAP.entry(hash).or_insert_with(text), and
\* the handle holding the hash; gives the handle and the map afterwards
Identifier_new(map, text) ==
    [ident |-> Identifier(hash(text)),
     map |-> IF hash(text) \in DOMAIN map THEN map
             ELSE [h \in DOMAIN map \cup {hash(text)} |->
                    IF h = hash(text) THEN text ELSE map[h]]]

\* impl Display: BACKWARDS_MAP.get(&self.hashed_ident).unwrap(), which
\* panics when the map has no entry
Display(map, ident) ==
    IF ident.hashed_ident \in DOMAIN map
    THEN [ok |-> TRUE, text |-> map[ident.hashed_ident]]
    ELSE [ok |-> FALSE, text |-> ""]

\* derive(PartialEq, Eq) and derive(PartialOrd, Ord) on Identifier
IdentifierEq(x, y) == x.hashed_ident = y.hashed_ident

IdentifierLt(x, y) == x.hashed_ident < y.hashed_ident

NoDisplay == [called |-> FALSE, ident |-> Identifier(0), ret |-> [ok |-> FALSE, text |-> ""]]

InitIntern ==
    /\ backwards_map = <<>>
    /\ interned = <<>>
    /\ displayed = NoDisplay

\* Identifier::new(text)
Intern ==
    /\ Len(interned) < MaxInterns
    /\ \E text \in Texts :
        LET r == Identifier_new(backwards_map, text)
        IN  /\ backwards_map' = r.map
            /\ interned' = Append(interned, [text |-> text, ident |-> r.ident])
    /\ UNCHANGED displayed
    /\ UNCHANGED <<varsLower, varsOps, varsInst, varsStatic, varsScope>>

\* a handle that Identifier::new returned is displayed
DisplayIdentifier ==
    /\ \E i \in 1..Len(interned) :
        displayed' = [called |-> TRUE, ident |-> interned[i].ident,
                      ret |-> Display(backwards_map, interned[i].ident)]
    /\ UNCHANGED <<backwards_map, interned>>
    /\ UNCHANGED <<varsLower, varsOps, varsInst, varsStatic, varsScope>>

-----------------------------------------------------------------------------
(* A scope as a native value: builtin_scope_instance.rs *)

\* names of variables
ScopeIdents == {"u", "v"}

NoScope == [uid |-> 0, variables |-> <<>>]

\* Scope::get_variable: the binding of the innermost frame of the chain
\* that has the name, else the undefined-variable error
get_variable(sc, ident) ==
    IF ident \in DOMAIN sc.variables THEN Ok(sc.variables[ident])
    ELSE IF ident \in DOMAIN sc.parent.variables THEN Ok(sc.parent.variables[ident])
    ELSE Err("UndefinedVariable", ident)

\* Scope::set_variable: assigns the innermost binding of the name, and
\* fails when the chain has none
set_variable(sc, ident, value) ==
    IF ident \in DOMAIN sc.variables
    THEN [ret |-> Ok(Nah),
          scope |-> [sc EXCEPT !.variables = [sc.variables EXCEPT ![ident] = value]]]
    ELSE IF ident \in DOMAIN sc.parent.variables
    THEN [ret |-> Ok(Nah),
          scope |-> [sc EXCEPT !.parent.variables =
                        [sc.parent.variables EXCEPT ![ident] = value]]]
    ELSE [ret |-> Err("UndefinedVariable", ident), scope |-> sc]

\* Scope::let_set_variable: binds the name in the scope's own frame,
\* whether or not it had a binding; gives the scope afterwards
let_set_variable(sc, ident, value) ==
    [sc EXCEPT !.variables =
        [k \in DOMAIN sc.variables \cup {ident} |->
            IF k = ident THEN value ELSE sc.variables[k]]]

\* BuiltinScopeInstance::get_uid
scope_get_uid(sc) == sc.uid

\* get_prop answered from the parent of the wrapped scope
scope_get_prop_of_parent(sc, ident) ==
    IF ident \in DOMAIN sc.parent.variables THEN Ok(sc.parent.variables[ident])
    ELSE Err("UndefinedVariable", ident)

\* BuiltinScopeInstance::get_prop: self.scope.get_variable(ident)
scope_get_prop(sc, ident) == get_variable(sc, ident)

\* set_prop through set_variable, handing its error on
scope_set_prop_existing(sc, ident, value) == set_variable(sc, ident, value)

\* BuiltinScopeInstance::set_prop: self.scope.let_set_variable(ident,
\* value); Ok(()); gives the result and the scope afterwards
scope_set_prop(sc, ident, value) ==
    [ret |-> Ok(Nah), scope |-> let_set_variable(sc, ident, value)]

NoScopeCall == [fn |-> "none", ident |-> "", value |-> Nah]

InitScope ==
    /\ wrapped = FALSE
    /\ wrapped_scope = [uid |-> 0, variables |-> <<>>, parent |-> NoScope]
    /\ scopeCall = NoScopeCall
    /\ scopeResult = Err("none", "")

\* BuiltinScopeInstance::new_value(scope): a scope with some variables
\* (holding 1) in its own frame and in its parent's is wrapped
WrapScope ==
    /\ ~wrapped
    /\ \E uid \in 1..MaxScopes, own \in SUBSET ScopeIdents, outer \in SUBSET ScopeIdents :
        wrapped_scope' = [uid |-> uid,
                  variables |-> [i \in own |-> Number(1)],
                  parent |-> [uid |-> uid + MaxScopes,
                              variables |-> [i \in outer |-> Number(1)]]]
    /\ wrapped' = TRUE
    /\ UNCHANGED <<scopeCall, scopeResult>>
    /\ UNCHANGED <<varsLower, varsOps, varsInst, varsStatic, varsIntern>>

\* get-property on the native value
ScopeGetProp ==
    /\ wrapped
    /\ \E ident \in ScopeIdents :
        /\ scopeCall' = [fn |-> "get_prop", ident |-> ident, value |-> Nah]
        /\ scopeResult' = scope_get_prop(wrapped_scope, ident)
    /\ UNCHANGED <<wrapped, wrapped_scope>>
    /\ UNCHANGED <<varsLower, varsOps, varsInst, varsStatic, varsIntern>>

\* set-property on the native value
ScopeSetProp ==
    /\ wrapped
    /\ \E ident \in ScopeIdents, v \in Values :
        LET r == scope_set_prop(wrapped_scope, ident, Number(v))
        IN  /\ scopeCall' = [fn |-> "set_prop", ident |-> ident, value |-> Number(v)]
            /\ scopeResult' = r.ret
            /\ wrapped_scope' = r.scope
    /\ UNCHANGED wrapped
    /\ UNCHANGED <<varsLower, varsOps, varsInst, varsStatic, varsIntern>>

-----------------------------------------------------------------------------
(* Specifications *)

Init == InitLower /\ InitOps /\ InitInst /\ InitStatic /\ InitIntern /\ InitScope

NextLower == ParseBinaries /\ UNCHANGED <<varsOps, varsInst, varsStatic, varsIntern, varsScope>>

NextInst == NewValue \/ Instantiate

SpecInst == Init /\ [][NextInst]_vars

NextStatic == NewValueStatic \/ GetProp \/ SetProp

SpecStatic == Init /\ [][NextStatic]_vars

NextIntern == Intern \/ DisplayIdentifier

SpecIntern == Init /\ [][NextIntern]_vars

NextScope == WrapScope \/ ScopeGetProp \/ ScopeSetProp

SpecScope == Init /\ [][NextScope]_vars

SpecLower == Init /\ [][NextLower]_vars

NextOps == DeclareOperator \/ ResolveOperator

SpecOps == Init /\ [][NextOps]_vars

-----------------------------------------------------------------------------
(* Properties of the lowering *)

\* Precedence parsing stated top-down: the root is the last operator of
\* the loosest band present, its operands are the parses of what stands
\* to its left and to its right.
RECURSIVE BandTree(_, _, _)
BandTree(ch, lo, hi) ==
    IF lo = hi THEN Operand(ch[lo].pos)
    ELSE LET opsAt == {i \in lo..hi : ch[i].kind = "op"}
             loosest == CHOOSE p \in {calculate_precedence(ch[i].text) : i \in opsAt} :
                            \A i \in opsAt : calculate_precedence(ch[i].text) <= p
             k == CHOOSE i \in opsAt :
                      /\ calculate_precedence(ch[i].text) = loosest
                      /\ \A j \in opsAt :
                            calculate_precedence(ch[j].text) = loosest => j <= i
         IN  Binary(ch[k].text, BandTree(ch, lo, k - 1), BandTree(ch, k + 1, hi))

\* C1: the lowering of a flat sequence expr, op, ..., expr is the single
\* tree obtained by reducing band after band, tighter band first, every
\* triple of the band left to right; after the last band the sequence has
\* length exactly 1 and its one element is the result.
C1_BandByBandTree ==
    parsed =>
        /\ Len(list) = 1
        /\ list[1] = ElemExpr(expr)
        /\ expr = BandTree(children, 1, Len(children))

\* 2 + 3 * 4 - 1 has been lowered to (2 + (3 * 4)) - 1
C1_Witness ==
    /\ parsed
    /\ children = ChildrenOf(<<"+", "*", "-">>)
    /\ expr = Binary("-", Binary("+", Operand(1),
                                     Binary("*", Operand(2), Operand(3))),
                          Operand(4))

\* ((e1 op1 e2) op2 e3) ... for the first n operators of ch
RECURSIVE LeftFold(_, _)
LeftFold(ch, n) ==
    IF n = 0 THEN Operand(ch[1].pos)
    ELSE Binary(ch[2 * n].text, LeftFold(ch, n - 1), Operand(ch[2 * n + 1].pos))

OneBand(ch) ==
    \A i, j \in {k \in 1..Len(ch) : ch[k].kind = "op"} :
        calculate_precedence(ch[i].text) = calculate_precedence(ch[j].text)

\* no node has a right operand rooted at an operator of its own band (or
\* of a looser one), and no left operand rooted at a looser operator
RECURSIVE LeftAssociative(_)
LeftAssociative(t) ==
    \/ t.kind = "Operand"
    \/ /\ t.kind = "Binary"
       /\ LeftAssociative(t.left)
       /\ LeftAssociative(t.right)
       /\ t.right.kind = "Binary" =>
            calculate_precedence(t.right.operator) < calculate_precedence(t.operator)
       /\ t.left.kind = "Binary" =>
            calculate_precedence(t.left.operator) <= calculate_precedence(t.operator)

\* C2: within one band the lowering is left-associative: a sequence whose
\* operators all lie in one band lowers to ((e1 op1 e2) op2 e3) ..., a
\* single operator gives one binary node, and in every result operators
\* of one band that meet after an earlier reduction nest to the left.
C2_LeftAssociative ==
    parsed =>
        /\ OneBand(children) => expr = LeftFold(children, Len(children) \div 2)
        /\ Len(children) = 3 =>
                expr = Binary(children[2].text, Operand(1), Operand(2))
        /\ LeftAssociative(expr)

\* 10 - 3 - 2 has been lowered to (10 - 3) - 2
C2_Witness ==
    /\ parsed
    /\ children = ChildrenOf(<<"-", "-">>)
    /\ expr = Binary("-", Binary("-", Operand(1), Operand(2)), Operand(3))

-----------------------------------------------------------------------------
(* Properties of the operator table *)

\* C3: registering an operator under a key that is already in the table
\* fails with the duplicate-registration error and leaves the table
\* unchanged; registering under a new key succeeds; no step removes a key
\* or changes the implementation a key was first registered with.
C3_NoRedefinition ==
    [][/\ regs' = regs + 1 =>
            IF opCall'.ident \in DOMAIN operators
            THEN opResult'.result = "AlreadySet" /\ operators' = operators
            ELSE /\ opResult'.result = "Ok"
                 /\ DOMAIN operators' = DOMAIN operators \cup {opCall'.ident}
                 /\ operators'[opCall'.ident] = opCall'.value
       /\ \A k \in DOMAIN operators :
            k \in DOMAIN operators' /\ operators'[k] = operators[k]]_vars

\* a second registration of a key has been refused, and the table still
\* holds the first implementation
C3_Witness ==
    /\ opCall.fn = "set_operator"
    /\ opResult.result = "AlreadySet"
    /\ opCall.ident \in DOMAIN operators
    /\ operators[opCall.ident] # opCall.value

-----------------------------------------------------------------------------
(* Properties of instantiate *)

called == outcome # NoOutcome

DeclaredIdents == {fields[i] : i \in 1..Len(fields)}

\* the arguments that stand for the name f: the named arguments f, and
\* the positional argument at the index of the field f
ArgsFor(f) ==
    {k \in 1..Len(args) :
        \/ args[k].ident = f
        \/ args[k].ident = NoIdentifier /\ k <= Len(fields) /\ fields[k] = f}

\* a positional argument at an index past the last field
PositionalPastFields ==
    \E k \in 1..Len(args) : args[k].ident = NoIdentifier /\ k > Len(fields)

\* a named argument whose name is not a field of the type
UnknownNames ==
    {args[k].ident : k \in {j \in 1..Len(args) : args[j].ident # NoIdentifier}}
        \ DeclaredIdents

\* some name is assigned by more than one argument
DuplicateAssignment == \E f \in FieldIdents : Cardinality(ArgsFor(f)) > 1

UnfilledFields == {i \in 1..Len(fields) : ArgsFor(fields[i]) = {}}

\* every argument stands for a declared field and every declared field
\* is given exactly one value
EveryFieldOnce ==
    /\ ~PositionalPastFields
    /\ UnknownNames = {}
    /\ \A i \in 1..Len(fields) : Cardinality(ArgsFor(fields[i])) = 1

\* C5: when the arguments give every field exactly one value, positional
\* or named and in any order, instantiate returns an object whose i-th
\* value is the value given to the i-th declared field.
C5_ValuesInDeclarationOrder ==
    (called /\ EveryFieldOnce) =>
        /\ outcome.kind = "Object"
        /\ Len(outcome.values) = Len(fields)
        /\ \A i \in 1..Len(fields) :
            \A k \in ArgsFor(fields[i]) : outcome.values[i] = args[k].value

\* fields (a, b) instantiated with {b: 2, a: 1} gave a = 1, b = 2
C5_Witness ==
    /\ fields = <<"a", "b">>
    /\ args = <<[ident |-> "b", value |-> 2], [ident |-> "a", value |-> 1]>>
    /\ outcome = Object(<<1, 2>>)

\* C6: a named argument whose name is not a field is rejected with the
\* unknown-field error before the check that every field has a value.
C6_UnknownFieldBeforeMissing ==
    (called /\ UnknownNames # {} /\ ~DuplicateAssignment /\ ~PositionalPastFields) =>
        /\ outcome.kind = "Error"
        /\ outcome.error = "DoesNotExist"
        /\ outcome.ident \in UnknownNames

\* C7: instantiate returns an object or an error value, and never aborts.
C7_NeverAborts ==
    called => outcome.kind \in {"Object", "Error"}

\* C8: with no duplicate assignment and a field left without a value,
\* instantiate fails with the missing-field error naming the first
\* unfilled field in declaration order, and creates no object.
C8_MissingFirstUnfilled ==
    (called /\ ~DuplicateAssignment /\ UnfilledFields # {}) =>
        /\ outcome.kind = "Error"
        /\ outcome.error = "Missing"
        /\ \E i \in UnfilledFields :
            /\ outcome.ident = fields[i]
            /\ \A j \in UnfilledFields : i <= j

\* C9: when one name is assigned more than once, by two named arguments
\* or by a positional and a named argument, instantiate fails with the
\* duplicate-assignment error, whatever fields are left unfilled.
C9_DuplicateBeforeMissing ==
    (called /\ DuplicateAssignment) =>
        /\ outcome.kind = "Error"
        /\ outcome.error = "SetMoreThanOnce"
        /\ Cardinality(ArgsFor(outcome.ident)) > 1

\* what C6, C8 and C9 say, apart from the out-of-bounds abort of C7 and,
\* for C6, apart from a field left unfilled
InstantiateErrorsApartFromAbort ==
    called =>
        \/ outcome.kind = "Panic" /\ PositionalPastFields
        \/ /\ outcome.kind # "Panic"
           /\ (DuplicateAssignment => outcome.error = "SetMoreThanOnce")
           /\ (~DuplicateAssignment /\ UnfilledFields # {}) =>
                /\ outcome.error = "Missing"
                /\ \E i \in UnfilledFields :
                    outcome.ident = fields[i] /\ \A j \in UnfilledFields : i <= j
           /\ (~DuplicateAssignment /\ UnfilledFields = {} /\ UnknownNames # {}) =>
                outcome.error = "DoesNotExist" /\ outcome.ident \in UnknownNames

-----------------------------------------------------------------------------
(* Properties of static member access *)

\* C10: a static read resolves the name as a static field first (its
\* current value, whatever properties or methods share the name), then
\* as a static property (the result of its getter), then as a static
\* method (a function with the stored parameters and body, bound to a
\* newly created type-bound scope); a name that is none of them is not
\* found.
C10_FieldPropertyMethod ==
    staticCall.fn = "get_prop" =>
        LET ident == staticCall.ident
        IN  IF ident \in DOMAIN static_fields
            THEN staticResult = Ok(static_fields[ident])
            ELSE IF ident \in DOMAIN static_properties
            THEN /\ static_properties[ident].getter.some =>
                    staticResult = Ok(Number(static_properties[ident].getter.value.value))
                 /\ ~(staticResult.ok /\ staticResult.value.kind = "Function")
                 /\ staticResult.error # "NotFound"
            ELSE IF ident \in DOMAIN static_methods
            THEN /\ staticResult.ok
                 /\ staticResult.value.kind = "Function"
                 /\ staticResult.value.parameters = static_methods[ident].parameters
                 /\ staticResult.value.body = static_methods[ident].body
                 /\ staticResult.value.scope = new_with_type(scopes)
                 /\ scopes >= 1
            ELSE staticResult = Err("NotFound", ident)

\* x is a static field, a static property with a getter and a static
\* method at once; it was written, and the read returned the value written
C10_Witness ==
    /\ staticCall = [fn |-> "get_prop", ident |-> "x", value |-> Nah]
    /\ "x" \in DOMAIN static_fields
    /\ "x" \in DOMAIN static_properties
    /\ static_properties["x"].getter.some
    /\ "x" \in DOMAIN static_methods
    /\ static_fields["x"] = Number(2)
    /\ staticResult = Ok(Number(2))

\* the message names s: s is one of the pieces it is put together from
Names(message, s) == \E i \in 1..Len(message) : message[i] = s

\* C11: the not-found error of a static get or set names both the symbol
\* that was looked up and the type it was looked up on.
C11_NotFoundNamesSymbolAndType ==
    (staticCall.fn \in {"get_prop", "set_prop"} /\ staticResult.error = "NotFound") =>
        /\ Names(staticResult.message, staticCall.ident)
        /\ Names(staticResult.message, TypeIdent)

\* the part of C11 the code does: the not-found error names the symbol
NotFoundNamesSymbol ==
    (staticCall.fn \in {"get_prop", "set_prop"} /\ staticResult.error = "NotFound") =>
        Names(staticResult.message, staticCall.ident)

\* C12: when the name is a static property and no static field, and the
\* property has no accessor for the direction asked, the access fails
\* with the missing-getter (read) or missing-setter (write) error; it is
\* not answered by a static method of the name, and the static fields
\* stay as they were.
C12_MissingAccessor ==
    [][LET ident == staticCall'.ident
       IN  (/\ constructed
            /\ ident \in DOMAIN static_properties
            /\ ident \notin DOMAIN static_fields) =>
            /\ (staticCall'.fn = "get_prop" /\ ~static_properties[ident].getter.some) =>
                    /\ staticResult' = Err("NoGetter", ident)
                    /\ static_fields' = static_fields
            /\ (staticCall'.fn = "set_prop" /\ ~static_properties[ident].setter.some) =>
                    /\ staticResult' = Err("NoSetter", ident)
                    /\ static_fields' = static_fields]_vars

\* x is a static property without getter and a static method, and no
\* static field; the read of x failed with the missing-getter error
C12_Witness ==
    /\ staticCall.fn = "get_prop"
    /\ staticCall.ident = "x"
    /\ "x" \notin DOMAIN static_fields
    /\ "x" \in DOMAIN static_properties
    /\ ~static_properties["x"].getter.some
    /\ "x" \in DOMAIN static_methods
    /\ staticResult.error = "NoGetter"

\* C16: a static write to an existing static field replaces the value of
\* that field and changes nothing else; no static access adds a name to
\* or removes one from the static fields; a write to a name that is only
\* a static method fails with not-found; a write that fails in the
\* type's own lookup (not found, no setter) leaves the static fields as
\* they were.
C16_StaticWriteFrame ==
    [][constructed =>
        /\ DOMAIN static_fields' = DOMAIN static_fields
        /\ static_properties' = static_properties
        /\ static_methods' = static_methods
        /\ staticCall'.fn = "set_prop" =>
            LET ident == staticCall'.ident
                value == staticCall'.value
            IN  /\ ident \in DOMAIN static_fields =>
                    /\ staticResult' = Ok(Nah)
                    /\ static_fields' = [static_fields EXCEPT ![ident] = value]
                    /\ scopes' = scopes
                /\ (/\ ident \notin DOMAIN static_fields
                    /\ ident \notin DOMAIN static_properties
                    /\ ident \in DOMAIN static_methods) =>
                    /\ staticResult' = Err("NotFound", ident)
                    /\ static_fields' = static_fields
                /\ staticResult'.error \in {"NotFound", "NoSetter"} =>
                    static_fields' = static_fields]_vars

\* x and y are static fields and x is also a static method; x was
\* written with 2 and y still holds its initial value
C16_Witness ==
    /\ staticCall = [fn |-> "set_prop", ident |-> "x", value |-> Number(2)]
    /\ staticResult = Ok(Nah)
    /\ "x" \in DOMAIN static_methods
    /\ DOMAIN static_fields = {"x", "y"}
    /\ static_fields["x"] = Number(2)
    /\ static_fields["y"] = Number(1)

-----------------------------------------------------------------------------
(* The interner *)

\* the i-th interned text is the first of its hash: no other text with
\* the same hash was interned before it
FirstOfHash(i) ==
    \A k \in 1..(i - 1) :
        hash(interned[k].text) = hash(interned[i].text) =>
            interned[k].text = interned[i].text

\* C13: interning a text twice yields equal handles; displaying the
\* handle of a text reproduces the text when no other text with the same
\* hash was interned before it; two handles are equal, and ordered,
\* exactly as the hashes of their texts are.
C13_InternDisplayRoundTrip ==
    /\ \A i, j \in 1..Len(interned) :
        /\ interned[i].text = interned[j].text =>
                IdentifierEq(interned[i].ident, interned[j].ident)
        /\ IdentifierEq(interned[i].ident, interned[j].ident)
                <=> hash(interned[i].text) = hash(interned[j].text)
        /\ IdentifierLt(interned[i].ident, interned[j].ident)
                <=> hash(interned[i].text) < hash(interned[j].text)
    /\ \A i \in 1..Len(interned) :
        FirstOfHash(i) =>
            /\ Display(backwards_map, interned[i].ident) = [ok |-> TRUE, text |-> interned[i].text]
            /\ (displayed.called /\ displayed.ident = interned[i].ident) =>
                    displayed.ret = [ok |-> TRUE, text |-> interned[i].text]

\* "a" was interned, then "c" of the same hash, then "a" again; the two
\* handles of "a" are equal and the handle displayed as "a"
C13_Witness ==
    /\ Len(interned) = MaxInterns
    /\ interned[1].text = "a"
    /\ interned[2].text = "c"
    /\ interned[MaxInterns].text = "a"
    /\ interned[1].ident = interned[MaxInterns].ident
    /\ displayed.called
    /\ displayed.ident = interned[MaxInterns].ident
    /\ displayed.ret = [ok |-> TRUE, text |-> "a"]

\* C14: in every step, every handle Identifier::new has returned has an
\* entry in BACKWARDS_MAP, so that its display succeeds; every entry of
\* the map is still there after the step, with the same text, also when
\* the step interns a different text of the same hash.
C14_ReverseTableGrowsOnly ==
    [][/\ \A i \in 1..Len(interned') :
            Display(backwards_map', interned'[i].ident).ok
       /\ \A h \in DOMAIN backwards_map :
            /\ h \in DOMAIN backwards_map'
            /\ backwards_map'[h] = backwards_map[h]
       /\ displayed'.called => displayed'.ret.ok]_vars

\* "a" was interned, then "c" of the same hash; the map still records
\* "a" for that hash, and the display of the handle of "c" succeeded
C14_Witness ==
    /\ Len(interned) >= 2
    /\ interned[1].text = "a"
    /\ interned[2].text = "c"
    /\ backwards_map[hash("c")] = "a"
    /\ displayed.called
    /\ displayed.ident = interned[2].ident
    /\ displayed.ret.ok

-----------------------------------------------------------------------------
(* A scope as a native value *)

\* C15: get_prop of a name on the scope value returns what get_variable
\* of the wrapped scope returns, its undefined-variable error included;
\* set_prop of a name returns Ok whether or not the name had a binding,
\* and get_prop of that name then returns the assigned value; the uid of
\* the value is the uid of the wrapped scope.
C15_ScopeValueDelegates ==
    [][wrapped =>
        /\ scopeCall'.fn = "get_prop" =>
            /\ scopeResult' = get_variable(wrapped_scope, scopeCall'.ident)
            /\ wrapped_scope' = wrapped_scope
        /\ scopeCall'.fn = "set_prop" =>
            /\ scopeResult' = Ok(Nah)
            /\ scope_get_prop(wrapped_scope', scopeCall'.ident) = Ok(scopeCall'.value)
        /\ scope_get_uid(wrapped_scope') = wrapped_scope.uid]_vars

\* u had no binding in the chain and v one in the parent only; u was set
\* to 2 through the scope value, and then read back through it
C15_Witness ==
    /\ wrapped
    /\ scopeCall = [fn |-> "get_prop", ident |-> "u", value |-> Nah]
    /\ scopeResult = Ok(Number(2))
    /\ DOMAIN wrapped_scope.variables = {"u"}
    /\ DOMAIN wrapped_scope.parent.variables = {"v"}

=============================================================================
